---- MODULE Spec2Model ----
(***************************************************************************)
(* Cross-chain event relay of dood_bot (src/script.py).                    *)
(*                                                                         *)
(* The model follows EventListenerService.run() statement by statement:    *)
(* the poll of the event filter, the per-event processing with its retry   *)
(* loop and exponential backoff, the catch-all recovery path with          *)
(* _reconnect_and_recreate_filter, and the KeyboardInterrupt handler.      *)
(* The blockchain node, the destination HTTP endpoint and the operator's   *)
(* interrupt signal are the environment: their answers are chosen          *)
(* nondeterministically from small sets.                                   *)
(***************************************************************************)
EXTENDS Integers, Sequences, FiniteSets, TLC

(***************************************************************************)
(* Bounds of the model.                                                    *)
(***************************************************************************)
\* total number of logs the source filter hands out over a run
MaxLogs == 3
\* largest number of logs one get_new_entries() call returns
MaxBatch == 2
\* number of times the catch-all handler of run() may be entered
MaxRecoveries == 2

(***************************************************************************)
(* Program constants.                                                      *)
(***************************************************************************)
\* script.py:210  max_retries = 3
max_retries == 3
\* script.py:337  source_chain_id=1
source_chain_id == 1
\* script.py:249  time.sleep(15)
RECONNECT_DELAY == 15

(***************************************************************************)
(* Python values.  A value is tagged with its type so that None, integers  *)
(* and strings stay distinct (None is not "None", 2 is not "2").           *)
(***************************************************************************)
PyNone == <<"None">>
PyInt(n) == <<"int", n>>
PyStr(s) == <<"str", s>>

\* Python integers have arbitrary precision.  An integer of 10^9 or more is
\* kept as two limbs: PyBigInt(hi, lo) is hi * 10^9 + lo, with hi > 0 and
\* 0 <= lo < 10^9.
Limb == 1000000000
PyBigInt(hi, lo) == <<"int", hi, lo>>

GetOrEmpty(d, k) == IF k \in DOMAIN d THEN d[k] ELSE PyStr("")

\* dict.get(key): the value, or None when the key is absent
Get(d, k) == IF k \in DOMAIN d THEN d[k] ELSE PyNone

DigitChar(d) == <<"0", "1", "2", "3", "4", "5", "6", "7", "8", "9">>[d + 1]

RECURSIVE DecStr(_)
\* decimal rendering of a non-negative integer, most significant digit first
DecStr(n) == IF n < 10 THEN DigitChar(n)
             ELSE DecStr(n \div 10) \o DigitChar(n % 10)

RECURSIVE DecStrPadded(_, _)
\* the low limb: exactly `width` decimal digits, with leading zeros
DecStrPadded(n, width) ==
    IF width = 0 THEN ""
    ELSE DecStrPadded(n \div 10, width - 1) \o DigitChar(n % 10)

\* decimal rendering of a Python integer
IntStr(v) == IF Len(v) = 2 THEN DecStr(v[2])
             ELSE DecStr(v[2]) \o DecStrPadded(v[3], 9)

StrIdentity(v) == v

\* Python str(): str(None) = 'None', str(int) = decimal digits, str(s) = s
Str(v) == IF v = PyNone THEN PyStr("None")
          ELSE IF v[1] = "int" THEN PyStr(IntStr(v))
          ELSE v

HexChar(d) == <<"0", "1", "2", "3", "4", "5", "6", "7",
                "8", "9", "a", "b", "c", "d", "e", "f">>[d + 1]

RECURSIVE HexDigits(_)
HexDigits(bytes) == IF bytes = <<>> THEN ""
                    ELSE HexChar(Head(bytes) \div 16) \o HexChar(Head(bytes) % 16)
                         \o HexDigits(Tail(bytes))

\* event['transactionHash'].hex().  The hash of a web3 log is a HexBytes, and
\* the web3 API the program calls (is_connected, to_checksum_address,
\* create_filter(fromBlock=...)) is that of web3 6.x, which runs on
\* hexbytes < 1.0: there HexBytes.hex() is "0x" followed by two lowercase
\* hex digits per byte.
Hex(bytes) == PyStr("0x" \o HexDigits(bytes))

(***************************************************************************)
(* Raw logs.  An event is a dict; a key that is missing from the dict is   *)
(* missing from the record's DOMAIN.                                       *)
(***************************************************************************)
FullArgs == [user |-> PyStr("0xA"), token |-> PyStr("0xB"),
             amount |-> PyInt(1000), destinationChainId |-> PyInt(2)]
PartialArgs == [token |-> PyStr("0xB"), amount |-> PyInt(70)]

RawLogs ==
    { [transactionHash |-> <<171, 1>>, blockNumber |-> PyInt(7), args |-> FullArgs],
      [transactionHash |-> <<10>>, blockNumber |-> PyInt(7), args |-> PartialArgs],
      [transactionHash |-> <<255>>, blockNumber |-> PyInt(8)],
      [blockNumber |-> PyInt(8)],
      [transactionHash |-> <<5>>, args |-> FullArgs] }

\* the batches a poll can return: up to MaxBatch raw logs, in filter order
Batches(n) == UNION { [1..k -> RawLogs] : k \in 0..n }


(***************************************************************************)
(* DestinationChainOracle.relay_event.  The HTTP exchange is summarised by *)
(* what requests.post produced: a transport failure (connection error or   *)
(* timeout), or a response with a status code and a body that is or is not *)
(* valid JSON.                                                             *)
(***************************************************************************)
StatusCodes == {100, 200, 204, 301, 302, 404, 500, 503}

Responses == { [failed |-> TRUE, status |-> 0, json_body |-> FALSE] }
             \cup [failed : {FALSE}, status : StatusCodes, json_body : BOOLEAN]

\* Response.raise_for_status(): HTTPError for 4xx and 5xx only
raise_for_status(resp) == resp.status >= 400 /\ resp.status < 600

\* the payload built from the processed event data
Payload(event_data) ==
    [source_tx_hash |-> event_data.transactionHash,
     source_chain_id |-> event_data.source_chain_id,
     destination_chain_id |-> event_data.destination_chain_id,
     user |-> event_data.user,
     token |-> event_data.token,
     amount |-> event_data.amount,
     block_number |-> event_data.block_number]

\* True only when no RequestException was raised: requests.post returned,
\* raise_for_status() did not raise, and response.json() (evaluated for the
\* success log line) decoded the body; requests' JSONDecodeError is a
\* RequestException, so an undecodable body ends in the except branch.
relay_event(resp) ==
    /\ ~resp.failed
    /\ ~raise_for_status(resp)
    /\ resp.json_body

(***************************************************************************)
(* EventListenerService._process_event, lines 191-207.                     *)
(***************************************************************************)
\* event['transactionHash'] of line 191 raises KeyError
RaisesAtHeader(event) == "transactionHash" \notin DOMAIN event

\* 'args' not in event
MissingArgs(event) == "args" \notin DOMAIN event

\* event['blockNumber'] of line 201 raises KeyError
RaisesAtNormalize(event) == "blockNumber" \notin DOMAIN event

\* _process_event raises before it reaches the retry loop
Raises(event) ==
    \/ RaisesAtHeader(event)
    \/ ~MissingArgs(event) /\ RaisesAtNormalize(event)

\* processed_data
Normalize(event) ==
    [transactionHash |-> Hex(event.transactionHash),
     block_number |-> event.blockNumber,
     source_chain_id |-> PyInt(source_chain_id),
     destination_chain_id |-> Get(event.args, "destinationChainId"),
     user |-> Get(event.args, "user"),
     token |-> Get(event.args, "token"),
     amount |-> Str(Get(event.args, "amount"))]

NoData == [transactionHash |-> PyNone]

RECURSIVE Pow2(_)
\* 2 ** attempt
Pow2(k) == IF k = 0 THEN 1 ELSE 2 * Pow2(k - 1)

BackoffDelayLinear(attempt_) == 2 * attempt_

\* the delay of line 218
BackoffDelay(attempt_) == Pow2(attempt_)

(***************************************************************************)
(* State.                                                                  *)
(***************************************************************************)
VARIABLES
    pc,             \* position of the single thread inside run()
    logs,           \* polled logs whose processing has not started yet
    cur,            \* id of the log in the retry loop, 0 when none
    processed_data, \* processed_data of that log
    attempt,        \* loop variable of the retry loop
    web3,           \* connector.web3: generation of the transport object
    contract,       \* connector.contract: generation it was built on
    event_filter,   \* generation of the contract the filter was created on
    connects,       \* number of _connect() calls so far
    recoveries,     \* number of entries into the catch-all handler
    nextId,         \* id of the next log the source will hand out
    relayLog,       \* history: log id of every relay_event call, in order
    outcome,        \* history: how processing of each log ended
    sleeps,         \* history: backoff sleeps started for the current log
    reconnectFailed,\* history: the last reconnection result logged is a failure
    interrupted,    \* history: a KeyboardInterrupt was delivered
    last_processed_block, \* the cursor set by EventListenerService.__init__
    startHeight,    \* history: get_latest_block_number() at construction
    fatal,          \* history: the fatal error main() logged, "none" if none
    event,          \* the raw log last handed to _process_event
    payloads,       \* history: payloads of the relay_event calls for it
    waited,         \* history: length of the handler's completed sleep
    response,       \* outcome of the HTTP exchange of a lone relay_event call
    returned        \* what that relay_event call returned

vars == <<pc, logs, cur, processed_data, attempt, web3, contract, event_filter,
          connects, recoveries, nextId, relayLog, outcome, sleeps,
          reconnectFailed, interrupted, last_processed_block, startHeight,
          fatal, event, payloads, waited, response, returned>>

\* written by main() and by a lone relay_event call only
auxVars == <<last_processed_block, startHeight, fatal, response, returned>>

connVars == <<web3, contract, event_filter, connects>>
eventVars == <<cur, processed_data, attempt>>

\* positions inside the try block of run()
TryBody == {"poll", "for_event", "relay", "backoff", "interval"}
\* positions inside the `except Exception` handler of run()
Handler == {"recover_sleep", "reconnect"}

\* the state of the service's state machine, read off the position in run()
ServiceState ==
    CASE pc \in TryBody -> "POLLING"
      [] pc \in Handler -> "RECOVERING"
      [] pc = "stopped" -> "STOPPED"
      [] pc = "crashed" -> "CRASHED"
      [] pc = "main" -> "STARTING"
      [] pc = "exited" -> "EXITED"
      [] OTHER -> "NONE"

\* number of relay_event calls for log id recorded in history h
CallsIn(h, id) == Cardinality({i \in 1..Len(h) : h[i] = id})

\* number of relay_event calls made for log id so far
Calls(id) == CallsIn(relayLog, id)

\* where run() continues once _process_event has returned
AfterEvent(rest) == IF rest = <<>> THEN "interval" ELSE "for_event"

\* block heights the node may report when the service is constructed
Heights == {8, 9}

InitialCursorNoOffset(latest) == latest

\* line 171: self.connector.get_latest_block_number() - 1
InitialCursor(latest) == latest - 1

\* no log has been handed to _process_event yet
NoEvent == [none |-> TRUE]

\* no lone relay_event call has been made
NoResponse == [failed |-> TRUE, status |-> -1, json_body |-> FALSE]

\* the state in which __init__ has returned and run() starts; the node
\* reported height 8 (SpecMain covers the construction for every height)
Init ==
    /\ pc = "poll"
    /\ logs = <<>>
    /\ cur = 0
    /\ processed_data = NoData
    /\ attempt = 0
    /\ web3 = 0
    /\ contract = 0
    /\ event_filter = 0
    /\ connects = 0
    /\ recoveries = 0
    /\ nextId = 1
    /\ relayLog = <<>>
    /\ outcome = [i \in 1..MaxLogs |-> "none"]
    /\ sleeps = <<>>
    /\ reconnectFailed = FALSE
    /\ interrupted = FALSE
    /\ startHeight = 8
    /\ last_processed_block = InitialCursor(startHeight)
    /\ fatal = "none"
    /\ event = NoEvent
    /\ payloads = <<>>
    /\ waited = 0
    /\ response = NoResponse
    /\ returned = FALSE

EnterHandlerEscapes ==
    /\ recoveries < MaxRecoveries
    /\ recoveries' = recoveries + 1
    /\ pc' = "crashed"
    /\ logs' = <<>>
    /\ cur' = 0
    /\ processed_data' = NoData
    /\ attempt' = 0
    /\ waited' = 0

EnterHandlerNoDelay ==
    /\ recoveries < MaxRecoveries
    /\ recoveries' = recoveries + 1
    /\ pc' = "reconnect"
    /\ logs' = <<>>
    /\ cur' = 0
    /\ processed_data' = NoData
    /\ attempt' = 0
    /\ waited' = 0

\* `except Exception` of run(): log, then time.sleep(15)
EnterHandler ==
    /\ recoveries < MaxRecoveries
    /\ recoveries' = recoveries + 1
    /\ pc' = "recover_sleep"
    /\ logs' = <<>>
    /\ cur' = 0
    /\ processed_data' = NoData
    /\ attempt' = 0
    /\ waited' = 0

(***************************************************************************)
(* run(), line 233: logs = self.event_filter.get_new_entries()             *)
(***************************************************************************)
PollReturns ==
    /\ pc = "poll"
    /\ \E batch \in Batches(MaxBatch) :
        /\ nextId + Len(batch) - 1 <= MaxLogs
        /\ (\E i \in 1..Len(batch) : Raises(batch[i])) => recoveries < MaxRecoveries
        /\ logs' = [i \in 1..Len(batch) |-> [id |-> nextId + i - 1, event |-> batch[i]]]
        /\ nextId' = nextId + Len(batch)
        /\ pc' = AfterEvent(batch)
    /\ UNCHANGED <<eventVars, connVars, recoveries, relayLog, outcome, sleeps,
                   reconnectFailed, interrupted, event, payloads, waited,
                   auxVars>>

PollRaises ==
    /\ pc = "poll"
    /\ EnterHandler
    /\ UNCHANGED <<connVars, nextId, relayLog, outcome, sleeps,
                   reconnectFailed, interrupted, event, payloads, auxVars>>

(***************************************************************************)
(* run(), lines 235-236, and _process_event up to the retry loop.          *)
(***************************************************************************)
\* `for event in logs` takes the logs in list order
PickLast(l) == Len(l)
PickIndex(l) == 1

Remove(l, i) == SubSeq(l, 1, i - 1) \o SubSeq(l, i + 1, Len(l))

\* _process_event(event) is entered for the next log of the batch
ProcessEvent ==
    /\ pc = "for_event"
    /\ logs # <<>>
    /\ LET id == logs[PickIndex(logs)].id
           ev == logs[PickIndex(logs)].event
           rest == Remove(logs, PickIndex(logs))
       IN  /\ sleeps' = <<>>
           /\ payloads' = <<>>
           /\ event' = ev
           /\ IF Raises(ev)
              THEN \* KeyError escapes to the catch-all handler of run()
                   /\ EnterHandler
                   /\ outcome' = [outcome EXCEPT ![id] = "raised"]
              ELSE IF MissingArgs(ev)
              THEN \* warning, return
                   /\ outcome' = [outcome EXCEPT ![id] = "skipped"]
                   /\ logs' = rest
                   /\ pc' = AfterEvent(rest)
                   /\ UNCHANGED <<eventVars, recoveries, waited>>
              ELSE \* processed_data is built, the retry loop starts
                   /\ cur' = id
                   /\ processed_data' = Normalize(ev)
                   /\ attempt' = 0
                   /\ logs' = rest
                   /\ pc' = "relay"
                   /\ UNCHANGED <<outcome, recoveries, waited>>
    /\ UNCHANGED <<connVars, nextId, relayLog, reconnectFailed, interrupted, auxVars>>

(***************************************************************************)
(* _process_event, lines 211-220: the retry loop.                          *)
(***************************************************************************)
\* lines 213-215: success is logged, break
RelaySucceededNoBreak ==
    /\ outcome' = [outcome EXCEPT ![cur] = "relayed"]
    /\ sleeps' = Append(sleeps, [after |-> attempt, delay |-> BackoffDelay(attempt)])
    /\ pc' = "backoff"
    /\ UNCHANGED eventVars

RelaySucceeded ==
    /\ outcome' = [outcome EXCEPT ![cur] = "relayed"]
    /\ cur' = 0
    /\ processed_data' = NoData
    /\ attempt' = 0
    /\ pc' = AfterEvent(logs)
    /\ UNCHANGED sleeps

\* lines 217-218: warning, then time.sleep(2 ** attempt) is entered
RelayFailed ==
    /\ sleeps' = Append(sleeps, [after |-> attempt, delay |-> BackoffDelay(attempt)])
    /\ pc' = "backoff"
    /\ UNCHANGED <<outcome, eventVars>>

\* line 212: one call of self.oracle.relay_event(processed_data)
RelayAttempt ==
    /\ pc = "relay"
    /\ relayLog' = Append(relayLog, cur)
    /\ payloads' = Append(payloads, Payload(processed_data))
    /\ \E resp \in Responses :
        IF relay_event(resp) THEN RelaySucceeded ELSE RelayFailed
    /\ UNCHANGED <<logs, connVars, recoveries, nextId, reconnectFailed,
                   interrupted, event, waited, auxVars>>

\* the retry loop goes on while range(max_retries) has a next value
LoopContinues(attempt_) == attempt_ + 1 < max_retries

\* line 218 returns: next iteration of the loop, or its else clause
BackoffDone ==
    /\ pc = "backoff"
    /\ IF LoopContinues(attempt)
       THEN /\ attempt' = attempt + 1
            /\ pc' = "relay"
            /\ UNCHANGED <<outcome, cur, processed_data>>
       ELSE \* for-else: the terminal failure is logged
            /\ outcome' = [outcome EXCEPT ![cur] = "failed"]
            /\ cur' = 0
            /\ processed_data' = NoData
            /\ attempt' = 0
            /\ pc' = AfterEvent(logs)
    /\ UNCHANGED <<logs, connVars, recoveries, nextId, relayLog, sleeps,
                   reconnectFailed, interrupted, event, payloads, waited,
                   auxVars>>

\* line 240: time.sleep(poll_interval) returns
IntervalDone ==
    /\ pc = "interval"
    /\ pc' = "poll"
    /\ UNCHANGED <<logs, eventVars, connVars, recoveries, nextId, relayLog,
                   outcome, sleeps, reconnectFailed, interrupted, event,
                   payloads, waited, auxVars>>

(***************************************************************************)
(* run(), lines 245-250, and _reconnect_and_recreate_filter.               *)
(***************************************************************************)
\* line 249: time.sleep(15) returns
RecoverDelayDone ==
    /\ pc = "recover_sleep"
    /\ pc' = "reconnect"
    /\ waited' = RECONNECT_DELAY
    /\ UNCHANGED <<logs, eventVars, connVars, recoveries, nextId, relayLog,
                   outcome, sleeps, reconnectFailed, interrupted, event,
                   payloads, auxVars>>

ReconnectResults == {"ok", "connect_fails", "filter_fails"}

\* _reconnect_and_recreate_filter() runs to its end: every Exception is
\* caught and logged, and run() goes back to the top of its loop either way
\* (a KeyboardInterrupt arriving inside it is KeyboardInterruptInHandler)
Reconnect ==
    /\ pc = "reconnect"
    /\ \E result \in ReconnectResults :
        /\ connects' = connects + 1
        \* _connect assigns self.web3 before it probes is_connected()
        /\ web3' = connects + 1
        /\ contract' = IF result = "connect_fails" THEN contract ELSE connects + 1
        /\ event_filter' = IF result = "ok" THEN connects + 1 ELSE event_filter
        /\ reconnectFailed' = (result # "ok")
    /\ pc' = "poll"
    /\ waited' = 0
    /\ UNCHANGED <<logs, eventVars, recoveries, nextId, relayLog, outcome,
                   sleeps, interrupted, event, payloads, auxVars>>

(***************************************************************************)
(* KeyboardInterrupt.  It is raised at whatever statement the thread is    *)
(* executing, so it can arrive before a step of the model has had any      *)
(* effect, in the middle of it, or when the step is complete and the next  *)
(* one has not begun.  Inside the try block of run() it reaches            *)
(* `except KeyboardInterrupt` (log, break).  Everywhere else no handler    *)
(* covers it (_connect, _reconnect_and_recreate_filter and main catch      *)
(* Exception only): between two iterations of `while True`, in the         *)
(* `except Exception` handler, and in main() outside run().  There it      *)
(* leaves run() and main() as an uncaught exception, with whatever had     *)
(* been assigned by then still in place.                                   *)
(***************************************************************************)
\* where in the try block of run() (or at the loop top before it) the thread
\* is when the signal arrives
TryInterruptPoints(pc_) ==
    CASE pc_ = "poll" ->
           \* lines 230-231 before the try is entered; inside
           \* get_new_entries(); after it has returned the batch
           {"loop_top", "in_poll", "polled"}
      [] pc_ = "for_event" ->
           \* before _process_event is called; inside it at line 191; after
           \* the skip has been logged or processed_data has been built
           {"before_event", "event_entered", "event_prepared"}
      [] pc_ = "relay" ->
           \* before relay_event is called; after it has been called (inside
           \* it, or between its return and the log line); after the result
           \* has been logged (and, for a failure, the sleep entered)
           {"before_relay", "relay_called", "relay_logged"}
      [] pc_ = "backoff" ->
           \* inside time.sleep(2 ** attempt); after it has returned
           {"in_backoff", "backoff_done"}
      [] pc_ = "interval" ->
           \* inside time.sleep(poll_interval); after it has returned, at
           \* the jump back to line 230, outside the try
           {"in_interval", "loop_top"}

\* the variables a step of the try block writes
stepVars == <<logs, cur, processed_data, attempt, nextId, relayLog, outcome,
              sleeps, event, payloads>>

\* the state run() is left in when the signal arrives at that point
InterruptedAt(point) ==
    CASE point = "loop_top" ->
           /\ pc' = "crashed"
           /\ UNCHANGED stepVars
      [] point \in {"in_poll", "before_event", "before_relay", "in_backoff",
                    "in_interval"} ->
           /\ pc' = "stopped"
           /\ UNCHANGED stepVars
      [] point = "polled" ->
           /\ pc' = "stopped"
           /\ \E batch \in Batches(MaxBatch) :
                /\ nextId + Len(batch) - 1 <= MaxLogs
                /\ logs' = [i \in 1..Len(batch) |->
                               [id |-> nextId + i - 1, event |-> batch[i]]]
                /\ nextId' = nextId + Len(batch)
           /\ UNCHANGED <<cur, processed_data, attempt, relayLog, outcome,
                          sleeps, event, payloads>>
      [] point = "event_entered" ->
           /\ pc' = "stopped"
           /\ event' = logs[PickIndex(logs)].event
           /\ logs' = Remove(logs, PickIndex(logs))
           /\ sleeps' = <<>>
           /\ payloads' = <<>>
           /\ UNCHANGED <<cur, processed_data, attempt, nextId, relayLog,
                          outcome>>
      [] point = "event_prepared" ->
           LET id == logs[PickIndex(logs)].id
               ev == logs[PickIndex(logs)].event
           IN  /\ ~Raises(ev)
               /\ pc' = "stopped"
               /\ event' = ev
               /\ logs' = Remove(logs, PickIndex(logs))
               /\ sleeps' = <<>>
               /\ payloads' = <<>>
               /\ IF MissingArgs(ev)
                  THEN /\ outcome' = [outcome EXCEPT ![id] = "skipped"]
                       /\ UNCHANGED <<cur, processed_data, attempt>>
                  ELSE /\ cur' = id
                       /\ processed_data' = Normalize(ev)
                       /\ attempt' = 0
                       /\ UNCHANGED outcome
               /\ UNCHANGED <<nextId, relayLog>>
      [] point = "relay_called" ->
           /\ pc' = "stopped"
           /\ relayLog' = Append(relayLog, cur)
           /\ payloads' = Append(payloads, Payload(processed_data))
           /\ UNCHANGED <<logs, cur, processed_data, attempt, nextId, outcome,
                          sleeps, event>>
      [] point = "relay_logged" ->
           /\ pc' = "stopped"
           /\ relayLog' = Append(relayLog, cur)
           /\ payloads' = Append(payloads, Payload(processed_data))
           /\ \E resp \in Responses :
                IF relay_event(resp)
                THEN /\ outcome' = [outcome EXCEPT ![cur] = "relayed"]
                     /\ cur' = 0
                     /\ processed_data' = NoData
                     /\ attempt' = 0
                     /\ UNCHANGED sleeps
                ELSE /\ sleeps' = Append(sleeps, [after |-> attempt,
                                                  delay |-> BackoffDelay(attempt)])
                     /\ UNCHANGED <<outcome, cur, processed_data, attempt>>
           /\ UNCHANGED <<logs, nextId, event>>
      [] point = "backoff_done" ->
           /\ pc' = "stopped"
           /\ IF LoopContinues(attempt)
              THEN /\ attempt' = attempt + 1
                   /\ UNCHANGED <<outcome, cur, processed_data>>
              ELSE /\ outcome' = [outcome EXCEPT ![cur] = "failed"]
                   /\ cur' = 0
                   /\ processed_data' = NoData
                   /\ attempt' = 0
           /\ UNCHANGED <<logs, nextId, relayLog, sleeps, event, payloads>>

KeyboardInterruptDeferred ==
    /\ pc \in TryBody
    /\ ~interrupted
    /\ interrupted' = TRUE
    /\ pc' = IF pc = "poll" THEN "stopped" ELSE pc
    /\ UNCHANGED <<stepVars, connVars, recoveries, reconnectFailed, waited,
                   auxVars>>

\* lines 242-244, and the uncaught signal at the loop top
KeyboardInterrupt ==
    /\ pc \in TryBody
    /\ interrupted' = TRUE
    /\ \E point \in TryInterruptPoints(pc) : InterruptedAt(point)
    /\ UNCHANGED <<connVars, recoveries, reconnectFailed, waited, auxVars>>

\* where in the handler the thread is when the signal arrives: in
\* time.sleep(15), or after it has returned; or, in
\* _reconnect_and_recreate_filter, before line 66 has assigned self.web3,
\* in is_connected() (line 67), in create_filter (line 181, reached from
\* line 259), after line 259 has assigned the filter, or after the result of
\* the attempt has been logged (line 260 or line 262)
InterruptPoints(pc_) ==
    IF pc_ = "recover_sleep" THEN {"sleep", "sleep_done"}
    ELSE {"before_connect", "is_connected", "create_filter", "after_filter",
          "connect_failure_logged", "filter_failure_logged", "success_logged"}

\* the assignments of _connect and _reconnect_and_recreate_filter that have
\* been executed when the thread is at that point
AssignedBefore(point) ==
    IF point \in {"sleep", "sleep_done", "before_connect"}
    THEN UNCHANGED connVars
    ELSE /\ connects' = connects + 1
         /\ web3' = connects + 1
         /\ contract' = IF point \in {"is_connected", "connect_failure_logged"}
                        THEN contract ELSE connects + 1
         /\ event_filter' = IF point \in {"after_filter", "success_logged"}
                            THEN connects + 1 ELSE event_filter

\* the result of the attempt that has been logged at that point, if any
LoggedBefore(point) ==
    IF point \in {"connect_failure_logged", "filter_failure_logged"}
    THEN reconnectFailed' = TRUE
    ELSE IF point = "success_logged" THEN reconnectFailed' = FALSE
    ELSE UNCHANGED reconnectFailed

KeyboardInterruptInHandler ==
    /\ pc \in Handler
    /\ pc' = "crashed"
    /\ interrupted' = TRUE
    /\ \E point \in InterruptPoints(pc) :
        /\ AssignedBefore(point)
        /\ LoggedBefore(point)
        /\ waited' = IF point = "sleep_done" THEN RECONNECT_DELAY ELSE waited
    /\ UNCHANGED <<logs, eventVars, recoveries, nextId, relayLog,
                   outcome, sleeps, event, payloads, auxVars>>

Next ==
    \/ PollReturns
    \/ PollRaises
    \/ ProcessEvent
    \/ RelayAttempt
    \/ BackoffDone
    \/ IntervalDone
    \/ RecoverDelayDone
    \/ Reconnect
    \/ KeyboardInterrupt
    \/ KeyboardInterruptInHandler

Spec == Init /\ [][Next]_vars

TypeOK ==
    /\ pc \in TryBody \cup Handler \cup {"stopped", "crashed", "main", "exited", "oracle"}
    /\ cur \in 0..MaxLogs
    /\ attempt \in 0..(max_retries - 1)
    /\ recoveries \in 0..MaxRecoveries
    /\ Len(relayLog) <= max_retries * MaxLogs

(***************************************************************************)
(* main(), lines 265-345: configuration, construction of the connector,    *)
(* the oracle and the service, then run().                                 *)
(***************************************************************************)
\* main() has been entered, nothing is constructed yet
InitMain ==
    /\ pc = "main"
    /\ logs = <<>>
    /\ cur = 0
    /\ processed_data = NoData
    /\ attempt = 0
    /\ web3 = 0
    /\ contract = 0
    /\ event_filter = 0
    /\ connects = 0
    /\ recoveries = 0
    /\ nextId = 1
    /\ relayLog = <<>>
    /\ outcome = [i \in 1..MaxLogs |-> "none"]
    /\ sleeps = <<>>
    /\ reconnectFailed = FALSE
    /\ interrupted = FALSE
    /\ startHeight = 0
    /\ last_processed_block = 0
    /\ fatal = "none"
    /\ event = NoEvent
    /\ payloads = <<>>
    /\ waited = 0
    /\ response = NoResponse
    /\ returned = FALSE

runVars == <<logs, eventVars, connVars, recoveries, nextId, relayLog, outcome,
             sleeps, reconnectFailed, event, payloads, waited, response,
             returned>>

\* what can go wrong between line 318 and the call of run():
\*   ConnectionFailure   ChainConnector.__init__ -> _connect raises ConnectionError
\*   UnknownEvent        _create_event_filter re-raises AttributeError
\*   BlockHeightFailure  get_latest_block_number raises
StartupFailures == {"ConnectionFailure", "UnknownEvent", "BlockHeightFailure"}

\* lines 276-278: a setting is missing, error logged, return
MainConfigMissing ==
    /\ pc = "main"
    /\ pc' = "exited"
    /\ fatal' = "ConfigMissing"
    /\ UNCHANGED <<runVars, interrupted, last_processed_block, startHeight>>

MainStartupFailsRecovers ==
    /\ pc = "main"
    /\ \E reason \in StartupFailures : fatal' = reason
    /\ pc' = "recover_sleep"
    /\ UNCHANGED <<runVars, interrupted, last_processed_block, startHeight>>

\* lines 342-345: the exception of a constructor is logged as critical and
\* main() returns
MainStartupFails ==
    /\ pc = "main"
    /\ \E reason \in StartupFailures : fatal' = reason
    /\ pc' = "exited"
    /\ UNCHANGED <<runVars, interrupted, last_processed_block, startHeight>>

\* lines 320-340: the three constructors return and run() is entered
MainStarts ==
    /\ pc = "main"
    /\ \E latest \in Heights :
        /\ startHeight' = latest
        /\ last_processed_block' = InitialCursor(latest)
    /\ pc' = "poll"
    /\ UNCHANGED <<runVars, interrupted, fatal>>

\* where in main() the thread is when the signal arrives: in the set-up
\* (lines 270-338, up to and including the constructors); after main() has
\* logged its fatal line (277, 343 or 345) and before it has returned; or in
\* run() before its try block is entered (line 229, the start-up log line),
\* when line 171 has already set the cursor
StartupInterruptPoints == {"setup", "fatal_logged", "run_entry"}

\* KeyboardInterrupt before the try block of run() is entered: no handler
\* covers it (main() catches Exception only; `except KeyboardInterrupt` of
\* run() belongs to the try not yet entered)
KeyboardInterruptAtStartup ==
    /\ pc = "main"
    /\ pc' = "crashed"
    /\ interrupted' = TRUE
    /\ \E point \in StartupInterruptPoints :
        CASE point = "setup" ->
               UNCHANGED <<last_processed_block, startHeight, fatal>>
          [] point = "fatal_logged" ->
               /\ fatal' \in StartupFailures \cup {"ConfigMissing"}
               /\ UNCHANGED <<last_processed_block, startHeight>>
          [] point = "run_entry" ->
               /\ \E latest \in Heights :
                    /\ startHeight' = latest
                    /\ last_processed_block' = InitialCursor(latest)
               /\ UNCHANGED fatal
    /\ UNCHANGED runVars

NextMain ==
    \/ MainConfigMissing
    \/ MainStartupFails
    \/ MainStarts
    \/ KeyboardInterruptAtStartup
    \/ Next

SpecMain == InitMain /\ [][NextMain]_vars

(***************************************************************************)
(* _process_event on one raw log, over a wider set of logs.                *)
(***************************************************************************)
OptionalFields == {"destinationChainId", "user", "token"}

\* 0, 70, 10^9 - 1, 10^9 + 5 and 10^18
Amounts == {PyInt(0), PyInt(70), PyInt(Limb - 1), PyBigInt(1, 5),
            PyBigInt(Limb, 0)}

\* args with the given optional fields and the given amount
ArgsWith(fields, amount) ==
    [k \in fields \cup {"amount"} |->
        IF k = "amount" THEN amount
        ELSE IF k = "user" THEN PyStr("0xA")
        ELSE IF k = "token" THEN PyStr("0xB")
        ELSE PyInt(2)]

EventInputs ==
    RawLogs \cup
    { [transactionHash |-> tx, blockNumber |-> PyInt(7), args |-> ArgsWith(fields, amount)] :
        tx \in {<<171, 1>>, <<10, 255>>},
        fields \in SUBSET OptionalFields,
        amount \in Amounts }

\* a poll has just returned a batch holding one log
InitEvent ==
    /\ pc = "for_event"
    /\ \E ev \in EventInputs : logs = <<[id |-> 1, event |-> ev]>>
    /\ cur = 0
    /\ processed_data = NoData
    /\ attempt = 0
    /\ web3 = 0
    /\ contract = 0
    /\ event_filter = 0
    /\ connects = 0
    /\ recoveries = 0
    /\ nextId = 2
    /\ relayLog = <<>>
    /\ outcome = [i \in 1..MaxLogs |-> "none"]
    /\ sleeps = <<>>
    /\ reconnectFailed = FALSE
    /\ interrupted = FALSE
    /\ startHeight = 8
    /\ last_processed_block = InitialCursor(8)
    /\ fatal = "none"
    /\ event = NoEvent
    /\ payloads = <<>>
    /\ waited = 0
    /\ response = NoResponse
    /\ returned = FALSE

NextEvent ==
    \/ ProcessEvent
    \/ RelayAttempt
    \/ BackoffDone

SpecEvent == InitEvent /\ [][NextEvent]_vars

(***************************************************************************)
(* DestinationChainOracle.relay_event called on its own.                   *)
(***************************************************************************)
\* the logs _process_event turns into processed_data
Relayable == {ev \in EventInputs : ~Raises(ev) /\ ~MissingArgs(ev)}

InitOracle ==
    /\ pc = "oracle"
    /\ logs = <<>>
    /\ cur = 0
    /\ processed_data = NoData
    /\ attempt = 0
    /\ web3 = 0
    /\ contract = 0
    /\ event_filter = 0
    /\ connects = 0
    /\ recoveries = 0
    /\ nextId = 1
    /\ relayLog = <<>>
    /\ outcome = [i \in 1..MaxLogs |-> "none"]
    /\ sleeps = <<>>
    /\ reconnectFailed = FALSE
    /\ interrupted = FALSE
    /\ startHeight = 8
    /\ last_processed_block = InitialCursor(8)
    /\ fatal = "none"
    /\ event = NoEvent
    /\ payloads = <<>>
    /\ waited = 0
    /\ response = NoResponse
    /\ returned = FALSE

\* relay_event(event_data): one POST, its outcome mapped to True or False
OracleCall ==
    /\ pc = "oracle"
    /\ \E ev \in Relayable : \E resp \in Responses :
        /\ processed_data' = Normalize(ev)
        /\ payloads' = <<Payload(Normalize(ev))>>
        /\ response' = resp
        /\ returned' = relay_event(resp)
    /\ UNCHANGED <<pc, logs, cur, attempt, connVars, recoveries, nextId,
                   relayLog, outcome, sleeps, reconnectFailed, interrupted,
                   last_processed_block, startHeight, fatal, event, waited>>

SpecOracle == InitOracle /\ [][OracleCall]_vars

(***************************************************************************)
(* Properties.                                                             *)
(***************************************************************************)
Ids == 1..MaxLogs

\* The retry loop: a log that reaches it gets at most max_retries = 3
\* relay_event calls, at least 1 once it is logged as relayed or failed,
\* exactly 3 when it is logged as failed, and the number of calls made so
\* far is the loop variable (plus the call just made).
RetryLoopBound ==
    \A id \in Ids :
        /\ Calls(id) <= 3
        /\ outcome[id] \in {"relayed", "failed"} => Calls(id) >= 1
        /\ outcome[id] = "failed" => Calls(id) = 3
        /\ (cur = id /\ pc = "relay") => Calls(id) = attempt
        /\ (cur = id /\ pc = "backoff") => Calls(id) = attempt + 1

\* C1 (as claimed): every raw log with an args payload that _process_event
\* has processed (no shutdown signal having cut the run short) got at least
\* 1 and at most 3 relay_event calls, exactly 3 when every attempt failed.
C1_Original ==
    /\ \A id \in Ids :
          /\ Calls(id) <= 3
          /\ outcome[id] = "failed" => Calls(id) = 3
    /\ (event # NoEvent /\ ~MissingArgs(event) /\ cur = 0 /\ ~interrupted) =>
          (Len(payloads) >= 1 /\ Len(payloads) <= 3)

\* C2 (as claimed): backoff sleeps happen only between two delivery
\* attempts: none before the first attempt and none after the final (third)
\* attempt.
C2_Original ==
    /\ (pc = "relay" /\ attempt = 0) => sleeps = <<>>
    /\ \A i \in 1..Len(sleeps) : sleeps[i].after + 1 < max_retries

\* C3: the backoff sleep that follows failed attempt k (k = 0, 1, 2) lasts
\* 2^k units, so the sleeps of one event are 1, 2, 4, strictly increasing.
C3_BackoffDelays ==
    \A i \in 1..Len(sleeps) :
        /\ sleeps[i].after = i - 1
        /\ sleeps[i].delay = <<1, 2, 4>>[i]
        /\ i > 1 => sleeps[i].delay > sleeps[i - 1].delay

C3_Witness ==
    Len(sleeps) = 3 /\ pc = "backoff" /\ cur # 0

\* C4: when relay_event returns success for an event, that step logs the
\* event as relayed, starts no backoff sleep and leaves the retry loop; from
\* then on the event stays relayed (never failed) and no further relay_event
\* call is made for it.  The retry loop only ever runs for an event without
\* a logged outcome.
C4_SuccessStopsRetry ==
    [][\A id \in Ids :
        /\ (cur = id) => outcome[id] = "none"
        /\ (outcome[id] # "relayed" /\ outcome'[id] = "relayed") =>
              /\ relayLog' = Append(relayLog, id)
              /\ sleeps' = sleeps
              /\ pc' \notin {"relay", "backoff"}
              /\ cur' # id
        /\ (outcome[id] = "relayed") =>
              /\ outcome'[id] = "relayed"
              /\ CallsIn(relayLog', id) = CallsIn(relayLog, id)]_vars

C4_Witness ==
    \E id \in Ids : \E later \in Ids :
        /\ id < later
        /\ outcome[id] = "relayed"
        /\ Calls(id) = 2
        /\ outcome[later] # "none"

\* C5 (as claimed): an event whose 3 attempts all failed is logged as
\* terminally failed while the service stays in POLLING, and is never
\* attempted again: once the third attempt has failed, either the failure is
\* logged, or the event is still in the retry loop and the service is in
\* POLLING.
C5_Original ==
    \A id \in Ids :
        /\ Calls(id) <= max_retries
        /\ (Calls(id) = max_retries /\ outcome[id] # "relayed") =>
              \/ outcome[id] = "failed"
              \/ cur = id /\ ServiceState = "POLLING"

\* C6 (as claimed): processing a log without an args payload, whatever its
\* other fields, makes no relay_event call and raises nothing: the log is
\* skipped, the service stays in POLLING and goes on with the rest of the
\* batch.
C6_Original ==
    [][(pc = "for_event" /\ MissingArgs(logs[1].event) /\ ~interrupted') =>
          /\ ServiceState' = "POLLING"
          /\ relayLog' = relayLog
          /\ outcome'[logs[1].id] = "skipped"
          /\ logs' = Tail(logs)]_vars

\* C7: relay_event calls follow the order in which the filter returned the
\* logs (ids are handed out in that order, across batches and polls): every
\* call for a log comes before the first call for any later log.
C7_DeliveryOrder ==
    \A i \in 1..Len(relayLog) : \A j \in 1..Len(relayLog) :
        i < j => relayLog[i] <= relayLog[j]

C7_Witness ==
    \E i \in 1..Len(relayLog) :
        /\ i + 2 <= Len(relayLog)
        /\ relayLog[i] = relayLog[i + 1]
        /\ relayLog[i + 1] < relayLog[i + 2]

\* C8: an exception raised by the poll or by event processing is caught at
\* the loop boundary and moves the service to RECOVERING; run() is left
\* (STOPPED, or an exception leaving run()) only by a step that delivers the
\* shutdown signal.
C8_CatchAll ==
    [][/\ (pc = "for_event" /\ Raises(logs[1].event) /\ ~interrupted') =>
              ServiceState' = "RECOVERING"
       /\ (pc = "poll" /\ ~interrupted') =>
              ServiceState' \in {"POLLING", "RECOVERING"}
       /\ (ServiceState' \in {"STOPPED", "CRASHED"}) => interrupted']_vars

C8_Witness ==
    /\ \E id \in Ids : outcome[id] = "raised"
    /\ recoveries = 2
    /\ pc = "for_event"
    /\ ~interrupted

\* C9 (as claimed): after a failed reconnection no filter poll and no event
\* processing happens before the next reconnection attempt.
C9_Original ==
    reconnectFailed => pc \notin {"for_event", "relay", "backoff", "interval"}

\* C10 (as claimed): the service does not enter STOPPED while an event is
\* inside its processing (delivery attempts, backoff sleeps).
C10_Original ==
    pc = "stopped" => cur = 0

\* C10 (amended): the shutdown signal is acted on by the very step that
\* delivers it, wherever in the poll/process cycle the thread is: run() ends
\* there (STOPPED; at the jump between two iterations the signal is not
\* caught and run() is left by it), never by any other step, and nothing is
\* deferred to the top of the loop.  An event that is in its retry loop at
\* that moment is abandoned as it is: no success or terminal failure is
\* logged for it, and STOPPED is terminal, so no further delivery attempt is
\* made.
C10_ShutdownInterruptsProcessing ==
    [][/\ (pc # "stopped" /\ pc' = "stopped") => (~interrupted /\ interrupted')
       /\ (pc \in TryBody /\ ~interrupted /\ interrupted') =>
              pc' \in {"stopped", "crashed"}
       /\ (pc' = "stopped" /\ cur' # 0) =>
              /\ outcome'[cur'] = "none"
              /\ CallsIn(relayLog', cur') <= max_retries
       /\ (pc = "stopped") => vars' = vars]_vars

C10_Witness ==
    /\ pc = "stopped"
    /\ cur # 0
    /\ outcome[cur] = "none"
    /\ Len(sleeps) = 1
    /\ Calls(cur) = 1

\* C11 (as claimed): relay_event returns success exactly when the HTTP
\* response has a 2xx status, whatever the body, and failure for a transport
\* error and for every other status class.
C11_Original ==
    (response # NoResponse) =>
        (returned <=> (~response.failed /\ response.status >= 200
                                        /\ response.status < 300))

\* C12: a failure of the start-up (connector cannot connect, event name
\* absent, block height unreadable) is logged as fatal and main() ends
\* there, straight from the set-up, by returning (or by a shutdown signal
\* that arrives while it returns): the service is never in POLLING or
\* RECOVERING, no poll has returned a log, no relay_event call and no
\* recovery or reconnection has been made, the cursor is not set, and
\* nothing happens afterwards.
C12_StartupFailureIsFatal ==
    [][/\ (fatal' \in StartupFailures) =>
              /\ pc' \in {"exited", "crashed"}
              /\ (pc' = "crashed") => interrupted'
              /\ nextId' = 1
              /\ relayLog' = <<>>
              /\ recoveries' = 0
              /\ connects' = 0
              /\ last_processed_block' = 0
       /\ (pc # "exited" /\ pc' = "exited") => pc = "main"
       /\ (pc = "exited") => pc' = "exited"
       /\ (fatal \in StartupFailures) => vars' = vars]_vars

C12_Witness ==
    pc = "exited" /\ fatal = "UnknownEvent"

\* the log handed to _process_event has a transaction hash, a block number
\* and args
HasRequired(ev) == {"transactionHash", "blockNumber", "args"} \subseteq DOMAIN ev

\* name of the payload field an args field is carried in
PayloadKey(k) == IF k = "destinationChainId" THEN "destination_chain_id" ELSE k

\* C13: a log with args that lacks any subset of destinationChainId, user
\* and token is still forwarded: processing does not raise, at least one
\* relay_event call is made before it ends, and in every payload sent each
\* missing field is None and each present field has its args value.
C13_OptionalFieldsDefaultToNone ==
    (event # NoEvent /\ HasRequired(event)) =>
        /\ pc \notin Handler
        /\ outcome[1] # "raised"
        /\ (cur = 0) => (outcome[1] \in {"relayed", "failed"} /\ Len(payloads) >= 1)
        /\ \A i \in 1..Len(payloads) : \A k \in OptionalFields :
              /\ (k \notin DOMAIN event.args) => payloads[i][PayloadKey(k)] = <<"None">>
              /\ (k \in DOMAIN event.args) => payloads[i][PayloadKey(k)] = event.args[k]

C13_Witness ==
    /\ event # NoEvent
    /\ HasRequired(event)
    /\ DOMAIN event.args = {"amount"}
    /\ outcome[1] = "relayed"
    /\ payloads[1].user = <<"None">>
    /\ payloads[1].token = <<"None">>
    /\ payloads[1].destination_chain_id = <<"None">>

\* the log has every args field
WellFormed(ev) ==
    /\ HasRequired(ev)
    /\ DOMAIN ev.args = OptionalFields \cup {"amount"}

\* C14: every delivery attempt for a well-formed log submits the same
\* payload: source_tx_hash is the log's transaction hash as a 0x-prefixed
\* hex string, block_number its block number, source_chain_id the configured
\* chain id 1, destination_chain_id, user and token the args values, and
\* amount the decimal string of the args amount, never a number; e.g. amount
\* 1000000000000000000 and destinationChainId 2 give "1000000000000000000",
\* 2 and source chain 1.
C14_PayloadContent ==
    (event # NoEvent /\ WellFormed(event)) =>
        \A i \in 1..Len(payloads) :
            LET p == payloads[i] IN
            /\ p = payloads[1]
            /\ p.source_tx_hash =
                  (IF event.transactionHash = <<171, 1>> THEN <<"str", "0xab01">>
                   ELSE <<"str", "0x0aff">>)
            /\ p.block_number = event.blockNumber
            /\ p.source_chain_id = <<"int", 1>>
            /\ p.destination_chain_id = <<"int", 2>>
            /\ p.user = <<"str", "0xA">>
            /\ p.token = <<"str", "0xB">>
            /\ p.amount[1] = "str"
            /\ p.amount =
                  (IF event.args.amount = <<"int", 0>> THEN <<"str", "0">>
                   ELSE IF event.args.amount = <<"int", 70>> THEN <<"str", "70">>
                   ELSE IF event.args.amount = <<"int", 1000>> THEN <<"str", "1000">>
                   ELSE IF event.args.amount = <<"int", 999999999>>
                        THEN <<"str", "999999999">>
                   ELSE IF event.args.amount = <<"int", 1, 5>>
                        THEN <<"str", "1000000005">>
                   ELSE <<"str", "1000000000000000000">>)

\* the scenario: amount 10^18, three attempts, the last one delivered
C14_Witness ==
    /\ event # NoEvent
    /\ WellFormed(event)
    /\ event.args.amount = <<"int", 1000000000, 0>>
    /\ event.transactionHash = <<10, 255>>
    /\ Len(payloads) = 3
    /\ payloads[3].amount = <<"str", "1000000000000000000">>
    /\ payloads[3].source_tx_hash = <<"str", "0x0aff">>
    /\ outcome[1] = "relayed"

\* C15: the cursor is set once, when the construction succeeds, to the
\* latest block height minus one, and no step of run() (poll, processing,
\* delivery, recovery, reconnection) changes it afterwards.
C15_CursorAdvisory ==
    [][/\ (pc = "main" /\ pc' = "poll") =>
              /\ startHeight' \in Heights
              /\ last_processed_block' = startHeight' - 1
       /\ (last_processed_block' # last_processed_block) =>
              /\ pc = "main"
              /\ startHeight' \in Heights
              /\ last_processed_block' = startHeight' - 1
       /\ (pc # "main") => last_processed_block' = last_processed_block]_vars

\* a log of a block at or below the cursor has been relayed, after a
\* recovery
C15_Witness ==
    /\ recoveries >= 1
    /\ connects >= 1
    /\ event # NoEvent
    /\ HasRequired(event)
    /\ event.blockNumber[2] <= last_processed_block
    /\ last_processed_block = startHeight - 1
    /\ Len(payloads) >= 1
    /\ cur = 0

\* C16: in the recovery handler the order is delay, reconnect, subscribe:
\* the reconnection is entered only when the sleep of 15 units has
\* completed, each reconnection attempt uses up that sleep (the loop goes on
\* with the sleep spent, unless a shutdown signal ends the run inside the
\* attempt), and the filter is replaced only by a step in which the
\* connector's reconnect succeeded, by a filter on the new transport and
\* contract.
C16_DelayThenReconnect ==
    [][/\ (pc # "reconnect" /\ pc' = "reconnect") =>
              (pc = "recover_sleep" /\ waited' = 15)
       /\ (connects' # connects) =>
              /\ pc = "reconnect"
              /\ waited = 15
              /\ \/ pc' = "poll" /\ waited' = 0
                 \/ pc' = "crashed" /\ interrupted'
       /\ (event_filter' # event_filter) =>
              /\ connects' = connects + 1
              /\ web3' = connects'
              /\ contract' = connects'
              /\ event_filter' = connects']_vars

C16_Witness ==
    /\ connects = 2
    /\ event_filter = 2
    /\ reconnectFailed = FALSE
    /\ pc = "poll"

\* C17 (as claimed): once the service has been in RECOVERING and is back in
\* POLLING with a poll answered, the filter it polled was created after the
\* failure (by the reconnection of the latest recovery), not the one in use
\* when the failure happened.
C17_Original ==
    (recoveries > 0 /\ pc \in {"for_event", "relay", "backoff", "interval"}) =>
        event_filter = recoveries

\* C18 (as claimed): before the service polls again or is in RECOVERING,
\* every log handed out by the filter has ended as skipped, relayed or
\* terminally failed.
C18_Original ==
    (pc \in {"poll"} \cup Handler) =>
        \A id \in Ids : (id < nextId) => outcome[id] \in {"skipped", "relayed", "failed"}

\* C19 (as claimed): a shutdown signal, wherever in run() it arrives, ends
\* the loop through the graceful path (STOPPED), never as an exception
\* leaving run().
C19_Original ==
    interrupted => pc = "stopped"

\* C20 (as claimed): the filter in use is always one created on the
\* connector's current transport and contract; a failed reconnection leaves
\* transport, contract and filter as they were.
C20_Original ==
    /\ contract = web3
    /\ event_filter = contract

====
